---- MODULE Spec2Model ----
(***************************************************************************)
(* DC "Clean Hands" checker: the request handlers of the front ends        *)
(* (hybridapi, render_api, railway_api, singlefile, testapi), the browser  *)
(* workflow each of them drives, the workflow of the mytaxdc_agent         *)
(* controller, the page-text classifier, the mock result generator and     *)
(* the email task.                                                         *)
(*                                                                         *)
(* Spec follows one request from its arrival to the response and the run   *)
(* of its email task; SpecTwo interleaves the runs of several requests of  *)
(* hybridapi.                                                              *)
(* Every await on the browser driver is one step whose outcome (returns,   *)
(* raises, and for count()/query_selector() what it returns) is chosen by  *)
(* the environment.  Control flow is a table: one row per await, giving    *)
(* the label reached when the call returns and the label of the handler    *)
(* that catches what it raises.                                            *)
(***************************************************************************)
EXTENDS Integers, Sequences, FiniteSets, TLC

VARIABLES
    fe,                 \* which front end serves the request
    notice, last4,      \* req.notice, req.last4
    BROWSER_AVAILABLE,  \* module flag set by the guarded import
    pc,                 \* label of the next step of the handler / workflow
    i,                  \* index of the running `for selector in ...` loop
    status, message,    \* workflow locals
    pdf_path,           \* workflow local
    urls,               \* result["urls"] of the singlefile workflow
    result_pdf_path,    \* result["pdf_path"] of the singlefile workflow
    page_text,          \* text read from the results page
    wf,                 \* what the workflow call gave back to the handler
    result,             \* the handler's result envelope
    response,           \* what the caller receives
    bg,                 \* BackgroundTasks: the tasks added, in order
    files,              \* PDF files written under ARTIFACTS_DIR
    sessionAcquired,    \* a BrowserSession was constructed for this request
    closeCalls,         \* number of calls of browser_session.close()
    realStarts,         \* number of calls of the real workflow function
    mockCalls,          \* number of calls of mock_clean_hands_workflow
    failedAt,           \* label of the step that raised out of the workflow
    mail,               \* how the background email task ended, once it ran
    marks,              \* form sub-steps the driver carried out
    matched,            \* candidates of the running chain whose probe returned
    used,               \* candidate of the running chain whose action returned
    valClicks,          \* click() calls made on the validate link
    valClicked,         \* a click() on the validate link returned
    runs,               \* concurrent requests of hybridapi: run -> its state
    disk                \* who wrote which file of ARTIFACTS_DIR: <<path, run>>

vars == <<fe, notice, last4, BROWSER_AVAILABLE, pc, i, status, message,
          pdf_path, urls, result_pdf_path, page_text, wf, result, response, bg, files,
          sessionAcquired, closeCalls, realStarts, mockCalls, failedAt,
          mail, marks, matched, used, valClicks, valClicked, runs, disk>>

\* the state of the requests that run concurrently
conc == <<runs, disk>>

\* what the steps of the workflows record about the driver calls they made
hist == <<marks, matched, used, valClicks, valClicked>>

None == "None"
\* None where a path, a text, a dict is expected
NoPath == <<>>
NoText == <<None>>
NoResult == [none |-> TRUE]
NoResponse == [kind |-> "none"]

-----------------------------------------------------------------------------
(* Bounds of the model.                                                    *)

\* longest page text, counted in chunks of Alphabet
MaxPageLen == 2

\* number of requests served concurrently
NumRuns == 2

-----------------------------------------------------------------------------
(* Page text.                                                              *)
(*                                                                         *)
(* A text is a sequence of chunks; the string it stands for is their       *)
(* concatenation.  No keyword of any front end occurs in a concatenation   *)
(* of these chunks other than as a run of whole chunks, so substring       *)
(* search on the string is subsequence search on the chunks.               *)

Alphabet == {"non", "non-", "compliant", "Compliant", "expired", "active", "x", " "}

RECURSIVE SeqsUpTo(_, _)
SeqsUpTo(S, n) ==
    IF n = 0 THEN {<<>>}
    ELSE LET shorter == SeqsUpTo(S, n - 1)
         IN  shorter \cup {Append(t, c) : t \in {u \in shorter : Len(u) = n - 1}, c \in S}

PageTexts == SeqsUpTo(Alphabet, MaxPageLen)

\* str.lower() on one chunk
LowerChunk(c) == IF c = "Compliant" THEN "compliant" ELSE c

\* str.lower()
Lower(t) == [k \in 1..Len(t) |-> LowerChunk(t[k])]

\* `kw in t` for strings
Contains(t, kw) ==
    \E k \in 1..(Len(t) - Len(kw) + 1) : SubSeq(t, k, k + Len(kw) - 1) = kw

\* any(keyword in t for keyword in kws)
ContainsAny(t, kws) == \E kw \in kws : Contains(t, kw)

\* the chunk begins (ends) with a \w character
WordStart(c) == c # " "
WordEnd(c) == c \notin {" ", "non-"}

\* \b before chunk k (which begins with a word character)
BoundaryBefore(t, k) == k = 1 \/ ~WordEnd(t[k - 1])
\* \b after chunk k (which ends with a word character)
BoundaryAfter(t, k) == k = Len(t) \/ ~WordStart(t[k + 1])

\* re.search(r"\bnon[- ]?compliant\b", t, re.I)
NonCompliantRe(t) ==
    LET l == Lower(t)
    IN  \E k \in 1..Len(t) :
          /\ BoundaryBefore(t, k)
          /\ \/ /\ k + 1 <= Len(t)
                /\ l[k] \in {"non", "non-"}
                /\ l[k + 1] = "compliant"
                /\ BoundaryAfter(t, k + 1)
             \/ /\ k + 2 <= Len(t)
                /\ l[k] = "non"
                /\ l[k + 1] = " "
                /\ l[k + 2] = "compliant"
                /\ BoundaryAfter(t, k + 2)

\* re.search(r"\bcompliant\b", t, re.I)
CompliantRe(t) ==
    LET l == Lower(t)
    IN  \E k \in 1..Len(t) :
          l[k] = "compliant" /\ BoundaryBefore(t, k) /\ BoundaryAfter(t, k)

-----------------------------------------------------------------------------
(* Keyword lists of the classifiers, each keyword cut into chunks.         *)

HybridCompliant == {<<"compliant">>}
HybridNonCompliant == {<<"non-", "compliant">>, <<"non", "compliant">>}

RenderCompliant ==
    {<<"compliant">>, <<"valid">>, <<"current">>, <<"active">>,
     <<"good", " ", "standing">>, <<"clear">>}
RenderNonCompliant ==
    {<<"non-", "compliant">>, <<"non", "compliant">>, <<"expired">>,
     <<"in", "valid">>, <<"suspended">>, <<"delinquent">>, <<"outstanding">>}

RailwayCompliant == {<<"compliant">>, <<"valid">>, <<"current">>, <<"active">>}
RailwayNonCompliant ==
    {<<"non-", "compliant">>, <<"non", "compliant">>, <<"expired">>,
     <<"in", "valid">>, <<"suspended">>}

compliant_keywords(f) ==
    CASE f = "hybrid" -> HybridCompliant
      [] f = "render" -> RenderCompliant
      [] f = "railway" -> RailwayCompliant
      [] OTHER -> {}

noncompliant_keywords(f) ==
    CASE f = "hybrid" -> HybridNonCompliant
      [] f = "render" -> RenderNonCompliant
      [] f = "railway" -> RailwayNonCompliant
      [] OTHER -> {}

\* the front ends whose workflow is the scripted one that returns an
\* ActionResult: the singlefile service and the mytaxdc_agent controller
Scripted == {"singlefile", "agent"}

\* the text matches the compliant test of front end f
MatchesCompliant(f, t) ==
    IF f \in Scripted THEN t # NoText /\ CompliantRe(t)
    ELSE ContainsAny(Lower(t), compliant_keywords(f))

\* the text matches the non-compliant test of front end f
MatchesNonCompliant(f, t) ==
    IF f \in Scripted THEN t # NoText /\ NonCompliantRe(t)
    ELSE ContainsAny(Lower(t), noncompliant_keywords(f))

-----------------------------------------------------------------------------
(* The classifiers: the pair <<status, message>> computed from the text.   *)

\* hybridapi, render_api, railway_api: the compliant list is tested first
ClassifySubstr(f, t) ==
    IF ContainsAny(Lower(t), compliant_keywords(f))
      THEN <<"compliant", "Certificate is compliant">>
    ELSE IF ContainsAny(Lower(t), noncompliant_keywords(f))
      THEN <<"noncompliant", "Certificate is non-compliant">>
    ELSE <<"unknown", "Unable to determine compliance status">>

\* singlefile: the non-compliant pattern is tested first
ClassifyRegex(t) ==
    LET s == IF t # NoText /\ t # <<>>
               THEN IF NonCompliantRe(t) THEN "noncompliant"
                    ELSE IF CompliantRe(t) THEN "compliant"
                    ELSE "unknown"
               ELSE "unknown"
    IN  <<s, IF s # "unknown" THEN "Detected compliance status from page."
             ELSE "Could not detect compliance status.">>

Classify_DefaultCompliant(f, t) ==
    IF f \in Scripted
      THEN IF ClassifyRegex(t)[1] = "unknown"
             THEN <<"compliant", "Detected compliance status from page.">>
             ELSE ClassifyRegex(t)
      ELSE IF ClassifySubstr(f, t)[1] = "unknown"
             THEN <<"compliant", "Certificate is compliant">>
             ELSE ClassifySubstr(f, t)

Classify(f, t) ==
    IF f \in Scripted THEN ClassifyRegex(t) ELSE ClassifySubstr(f, t)

-----------------------------------------------------------------------------
(* Control-flow tables.  A row is one step of a workflow or handler:       *)
(*   l   its label            ln  the source line of the call              *)
(*   k   what the step is     nx  next label when the call returns         *)
(*   z   next label when count() is 0, query_selector() is None or the     *)
(*       bytes are empty      tx  next label on PlaywrightTimeoutError     *)
(*   ex  label of the handler that catches any other exception             *)
(*   u   page whose url add_url() records when the call returns            *)
(*   n   number of selectors of a `for selector in ...` loop               *)

Row(l, k, ln, nx, z, tx, ex, u, n) ==
    [l |-> l, k |-> k, ln |-> ln, nx |-> nx, z |-> z, tx |-> tx, ex |-> ex,
     u |-> u, n |-> n]

Aw(l, ln, nx, ex) == Row(l, "aw", ln, nx, "", "", ex, "", 0)
AwU(l, ln, nx, ex, u) == Row(l, "aw", ln, nx, "", "", ex, u, 0)
AwT(l, ln, nx, tx, ex) == Row(l, "aw", ln, nx, "", tx, ex, "", 0)
Cnt(l, ln, nx, z, ex) == Row(l, "cnt", ln, nx, z, "", ex, "", 0)
Txt(l, ln, nx, ex) == Row(l, "text", ln, nx, "", "", ex, "", 0)
Cls(l, ln, nx) == Row(l, "cls", ln, nx, "", "", "", "", 0)
Dlv(l, ln, nx, ex) == Row(l, "dlv", ln, nx, "", "", ex, "", 0)
Byt(l, ln, nx, z, tx, ex) == Row(l, "bytes", ln, nx, z, tx, ex, "", 0)
Sav(l, ln, nx, ex) == Row(l, "save", ln, nx, "", "", ex, "", 0)
Cl(l, ln, nx, ex) == Row(l, "close", ln, nx, "", "", ex, "", 0)
For(l, ln, n, body, z) == Row(l, "for", ln, body, z, "", "", "", n)
Brk(l, ln, nx) == Row(l, "brk", ln, nx, "", "", "", "", 0)
Sto(l, ln, nx) == Row(l, "store", ln, nx, "", "", "", "", 0)
Err(l, ln, msg) == Row(l, "err", ln, "", "", "", "", msg, 0)
Ret(l, ln) == Row(l, "ret", ln, "", "", "", "", "", 0)
Rai(l, ln) == Row(l, "raise", ln, "", "", "", "", "", 0)

\* hybridapi.clean_hands_workflow, from the try of line 87
HybridFlow == <<
    Aw("h_page", 89, "h_goto", "h_exc"),
    Aw("h_goto", 92, "h_click", "h_exc"),
    Aw("h_click", 96, "h_fill_notice", "h_exc"),
    Aw("h_fill_notice", 99, "h_fill_last4", "h_exc"),
    Aw("h_fill_last4", 100, "h_submit", "h_exc"),
    Aw("h_submit", 103, "h_idle", "h_exc"),
    Aw("h_idle", 106, "h_text", "h_exc"),
    Txt("h_text", 109, "h_classify", "h_exc"),
    Cls("h_classify", 111, "h_dl_click"),
    Aw("h_dl_click", 127, "h_dl_value", "h_close"),
    Dlv("h_dl_value", 128, "h_dl_save", "h_close"),
    Sav("h_dl_save", 130, "h_close", "h_close"),
    Cl("h_close", 135, "h_return", "h_exc"),
    Ret("h_return", 137),
    Cl("h_exc", 146, "h_raise", "h_raise"),
    Rai("h_raise", 147) >>

\* render_api.render_clean_hands_workflow, from the try of line 69
RenderFlow == <<
    Aw("r_page", 70, "r_goto", "r_exc"),
    Aw("r_goto", 73, "r_settle", "r_exc"),
    Aw("r_settle", 76, "r_val_for", "r_exc"),
    For("r_val_for", 90, 5, "r_val_wait", "r_exc"),
    Aw("r_val_wait", 92, "r_val_click", "r_val_for"),
    Aw("r_val_click", 93, "r_val_brk", "r_val_for"),
    Brk("r_val_brk", 96, "r_form_dom"),
    Aw("r_form_dom", 105, "r_form_settle", "r_exc"),
    Aw("r_form_settle", 106, "r_not_for", "r_exc"),
    For("r_not_for", 122, 7, "r_not_wait", "r_exc"),
    Aw("r_not_wait", 124, "r_not_fill", "r_not_for"),
    Aw("r_not_fill", 125, "r_not_brk", "r_not_for"),
    Brk("r_not_brk", 128, "r_l4_for"),
    For("r_l4_for", 148, 7, "r_l4_wait", "r_exc"),
    Aw("r_l4_wait", 150, "r_l4_fill", "r_l4_for"),
    Aw("r_l4_fill", 151, "r_l4_brk", "r_l4_for"),
    Brk("r_l4_brk", 154, "r_sub_for"),
    For("r_sub_for", 174, 7, "r_sub_click", "r_exc"),
    Aw("r_sub_click", 176, "r_sub_brk", "r_sub_for"),
    Brk("r_sub_brk", 179, "r_idle"),
    Aw("r_idle", 188, "r_content", "r_exc"),
    Aw("r_content", 191, "r_text", "r_exc"),
    Txt("r_text", 192, "r_classify", "r_exc"),
    Cls("r_classify", 197, "r_dl_for"),
    For("r_dl_for", 229, 6, "r_dl_query", "r_close"),
    Cnt("r_dl_query", 231, "r_dl_click", "r_dl_for", "r_dl_for"),
    Aw("r_dl_click", 235, "r_dl_value", "r_dl_for"),
    Dlv("r_dl_value", 236, "r_dl_save", "r_dl_for"),
    Sav("r_dl_save", 238, "r_dl_brk", "r_dl_for"),
    Brk("r_dl_brk", 240, "r_close"),
    Cl("r_close", 247, "r_return", "r_exc"),
    Ret("r_return", 249),
    Cl("r_exc", 258, "r_raise", "r_raise"),
    Rai("r_raise", 260) >>

\* railway_api.railway_clean_hands_workflow, from the try of line 65
RailwayFlow == <<
    Aw("w_page", 66, "w_goto", "w_exc"),
    Aw("w_goto", 69, "w_settle", "w_exc"),
    Aw("w_settle", 73, "w_val_wait", "w_exc"),
    Aw("w_val_wait", 77, "w_val_click", "w_exc"),
    Aw("w_val_click", 78, "w_form_wait", "w_exc"),
    Aw("w_form_wait", 82, "w_not_for", "w_exc"),
    For("w_not_for", 92, 4, "w_not_fill", "w_l4_for"),
    Aw("w_not_fill", 94, "w_not_brk", "w_not_for"),
    Brk("w_not_brk", 96, "w_l4_for"),
    For("w_l4_for", 108, 4, "w_l4_fill", "w_sub_for"),
    Aw("w_l4_fill", 110, "w_l4_brk", "w_l4_for"),
    Brk("w_l4_brk", 112, "w_sub_for"),
    For("w_sub_for", 125, 5, "w_sub_click", "w_idle"),
    Aw("w_sub_click", 127, "w_sub_brk", "w_sub_for"),
    Brk("w_sub_brk", 129, "w_idle"),
    Aw("w_idle", 134, "w_content", "w_exc"),
    Aw("w_content", 137, "w_text", "w_exc"),
    Txt("w_text", 138, "w_classify", "w_exc"),
    Cls("w_classify", 143, "w_dl_for"),
    For("w_dl_for", 165, 4, "w_dl_query", "w_close"),
    Cnt("w_dl_query", 167, "w_dl_click", "w_dl_for", "w_dl_for"),
    Aw("w_dl_click", 170, "w_dl_value", "w_dl_for"),
    Dlv("w_dl_value", 171, "w_dl_save", "w_dl_for"),
    Sav("w_dl_save", 173, "w_dl_brk", "w_dl_for"),
    Brk("w_dl_brk", 175, "w_close"),
    Cl("w_close", 182, "w_return", "w_exc"),
    Ret("w_return", 184),
    Cl("w_exc", 193, "w_raise", "w_raise"),
    Rai("w_raise", 195) >>

\* singlefile.clean_hands_workflow, and the finally of run_clean_hands
SinglefileFlow == <<
    Aw("s_page", 87, "s_goto", "s_escape"),
    Aw("s_goto", 91, "s_idle", "s_err1"),
    AwU("s_idle", 92, "s_link_cnt", "s_err1", "home"),
    Err("s_err1", 95, "Failed to open site"),
    Cnt("s_link_cnt", 100, "s_link_click", "s_link_click", "s_wheel"),
    Aw("s_link_click", 103, "s_link_dom", "s_wheel"),
    Aw("s_link_dom", 104, "s_link_idle", "s_wheel"),
    AwU("s_link_idle", 105, "s_n_wait", "s_wheel", "validate"),
    Aw("s_wheel", 109, "s_link2_cnt", "s_err2"),
    Cnt("s_link2_cnt", 111, "s_link2_click", "s_link2_click", "s_err2"),
    Aw("s_link2_click", 113, "s_link2_dom", "s_err2"),
    Aw("s_link2_dom", 114, "s_link2_idle", "s_err2"),
    AwU("s_link2_idle", 115, "s_n_wait", "s_err2", "validate"),
    Err("s_err2", 118, "Failed to find/click 'Validate a Certificate of Clean Hands'"),
    Aw("s_n_wait", 128, "s_n_fill", "s_err3"),
    Aw("s_n_fill", 129, "s_l_wait", "s_err3"),
    Aw("s_l_wait", 131, "s_l_fill", "s_err3"),
    Aw("s_l_fill", 132, "s_btn_cnt", "s_err3"),
    Cnt("s_btn_cnt", 135, "s_btn_cnt2", "s_btn_cnt2", "s_err3"),
    Cnt("s_btn_cnt2", 138, "s_btn_click", "s_enter", "s_err3"),
    Aw("s_btn_click", 139, "s_sub_dom", "s_err3"),
    Aw("s_enter", 141, "s_sub_dom", "s_err3"),
    Aw("s_sub_dom", 143, "s_sub_idle", "s_err3"),
    Aw("s_sub_idle", 144, "s_text", "s_err3"),
    Err("s_err3", 146, "Failed to fill form/search"),
    Txt("s_text", 150, "s_classify", "s_classify"),
    Cls("s_classify", 154, "s_req_cnt"),
    Cnt("s_req_cnt", 170, "s_req_cnt2", "s_req_cnt2", "s_ret"),
    Cnt("s_req_cnt2", 175, "s_req_click", "s_view_cnt", "s_ret"),
    Aw("s_req_click", 176, "s_req_dom", "s_ret"),
    Aw("s_req_dom", 177, "s_req_idle", "s_ret"),
    AwU("s_req_idle", 178, "s_next_cnt", "s_ret", "request"),
    Cnt("s_next_cnt", 182, "s_next_click", "s_subm_cnt", "s_ret"),
    Aw("s_next_click", 183, "s_next_dom", "s_ret"),
    Aw("s_next_dom", 184, "s_next_idle", "s_ret"),
    AwU("s_next_idle", 185, "s_subm_cnt", "s_ret", "next"),
    Cnt("s_subm_cnt", 189, "s_subm_click", "s_view_cnt", "s_ret"),
    Aw("s_subm_click", 190, "s_subm_dom", "s_ret"),
    Aw("s_subm_dom", 191, "s_subm_idle", "s_ret"),
    AwU("s_subm_idle", 192, "s_view_cnt", "s_ret", "submit"),
    Cnt("s_view_cnt", 196, "s_view_cnt2", "s_view_cnt2", "s_ret"),
    Cnt("s_view_cnt2", 200, "s_dl_click", "s_store", "s_ret"),
    Aw("s_dl_click", 204, "s_dl_value", "s_pop_click"),
    Dlv("s_dl_value", 205, "s_dl_save", "s_pop_click"),
    Sav("s_dl_save", 207, "s_store", "s_pop_click"),
    Aw("s_pop_click", 212, "s_pop_value", "s_store"),
    Aw("s_pop_value", 213, "s_pop_load", "s_store"),
    AwU("s_pop_load", 214, "s_pop_resp", "s_store", "popup"),
    AwT("s_pop_resp", 223, "s_pop_body", "s_pop_eval", "s_store"),
    Byt("s_pop_body", 224, "s_pop_write", "s_store", "s_pop_eval", "s_store"),
    Byt("s_pop_eval", 227, "s_pop_write", "s_store", "", "s_store"),
    Sav("s_pop_write", 240, "s_store", "s_store"),
    Sto("s_store", 245, "s_ret"),
    Ret("s_ret", 252),
    Rai("s_escape", 87),
    Cl("s_finally", 352, "s_after", "s_after") >>

\* mytaxdc_agent.clean_hands_workflow
AgentFlow == <<
    Aw("a_page", 54, "a_goto", "a_escape"),
    AwU("a_goto", 57, "a_link_cnt", "a_escape", "home"),
    Cnt("a_link_cnt", 63, "a_link_click", "a_link_click", "a_wheel"),
    Aw("a_link_click", 65, "a_link_dom", "a_wheel"),
    Aw("a_wheel", 69, "a_link2_click", "a_err2"),
    Aw("a_link2_click", 71, "a_link_dom", "a_err2"),
    Err("a_err2", 74, "Failed to find/click 'Validate a Certificate of Clean Hands'"),
    AwU("a_link_dom", 76, "a_n_fill", "a_escape", "validate"),
    Aw("a_n_fill", 82, "a_l_click", "a_err3"),
    Aw("a_l_click", 85, "a_l_fill", "a_err3"),
    Aw("a_l_fill", 86, "a_btn_cnt", "a_err3"),
    Cnt("a_btn_cnt", 91, "a_btn_click", "a_btn_click", "a_enter"),
    Aw("a_btn_click", 93, "a_settle", "a_enter"),
    Aw("a_enter", 96, "a_settle", "a_err3"),
    Err("a_err3", 99, "Failed to fill form"),
    Aw("a_settle", 102, "a_text", "a_escape"),
    Txt("a_text", 104, "a_classify", "a_classify"),
    Cls("a_classify", 108, "a_req_cnt"),
    Cnt("a_req_cnt", 126, "a_req_cnt2", "a_req_cnt2", "a_ret"),
    Cnt("a_req_cnt2", 129, "a_req_click", "a_view_settle", "a_ret"),
    Aw("a_req_click", 130, "a_req_dom", "a_ret"),
    AwU("a_req_dom", 131, "a_req_settle", "a_ret", "request"),
    Aw("a_req_settle", 135, "a_next_cnt", "a_ret"),
    Cnt("a_next_cnt", 139, "a_next_click", "a_subm_settle", "a_ret"),
    Aw("a_next_click", 140, "a_next_dom", "a_ret"),
    AwU("a_next_dom", 141, "a_subm_settle", "a_ret", "next"),
    Aw("a_subm_settle", 145, "a_subm_cnt", "a_ret"),
    Cnt("a_subm_cnt", 149, "a_subm_click", "a_view_settle", "a_ret"),
    Aw("a_subm_click", 150, "a_subm_dom", "a_ret"),
    AwU("a_subm_dom", 151, "a_view_settle", "a_ret", "submit"),
    Aw("a_view_settle", 155, "a_view_cnt", "a_ret"),
    Cnt("a_view_cnt", 159, "a_view_cnt2", "a_view_cnt2", "a_ret"),
    Cnt("a_view_cnt2", 163, "a_dl_click", "a_ret", "a_ret"),
    Aw("a_dl_click", 167, "a_dl_value", "a_pop_page"),
    Dlv("a_dl_value", 168, "a_dl_save", "a_pop_page"),
    Sav("a_dl_save", 170, "a_store", "a_pop_page"),
    Aw("a_pop_page", 174, "a_pop_dom", "a_store"),
    AwU("a_pop_dom", 175, "a_pop_eval", "a_store", "popup"),
    Byt("a_pop_eval", 178, "a_pop_write", "a_store", "", "a_store"),
    Sav("a_pop_write", 190, "a_store", "a_store"),
    Sto("a_store", 195, "a_ret"),
    Ret("a_ret", 201),
    Rai("a_escape", 54) >>

Flow(f) ==
    CASE f = "hybrid" -> HybridFlow
      [] f = "render" -> RenderFlow
      [] f = "railway" -> RailwayFlow
      [] f = "singlefile" -> SinglefileFlow
      [] f = "agent" -> AgentFlow
      [] OTHER -> <<>>

\* the tables as functions: front end -> label -> row
NodeOf ==
    [f \in {"hybrid", "render", "railway", "singlefile", "agent", "testapi"} |->
        [l \in {Flow(f)[k].l : k \in 1..Len(Flow(f))} |->
            Flow(f)[CHOOSE k \in 1..Len(Flow(f)) : Flow(f)[k].l = l]]]

Labels(f) == DOMAIN NodeOf[f]

Node(f, l) == NodeOf[f][l]

\* position of the row labelled l in the table of front end f
Index(f, l) == CHOOSE k \in 1..Len(Flow(f)) : Flow(f)[k].l = l

\* The first step a workflow makes in each state of the orchestrator after
\* Start: the step after the navigation (SiteOpened), after the click on the
\* validate link and its waits (ValidationPageReached), after the submit
\* (FormSubmitted), after the classification (VerdictExtracted), after the
\* certificate block (CertificateAttempted), and the return (Done).  The
\* scripted workflows are Done where control is after their return.
PhaseStarts(f) ==
    CASE f = "hybrid" -> <<"h_click", "h_fill_notice", "h_idle", "h_dl_click",
                           "h_close", "h_return">>
      [] f = "render" -> <<"r_settle", "r_form_dom", "r_idle", "r_dl_for",
                           "r_close", "r_return">>
      [] f = "railway" -> <<"w_settle", "w_form_wait", "w_idle", "w_dl_for",
                            "w_close", "w_return">>
      [] f = "singlefile" -> <<"s_link_cnt", "s_n_wait", "s_sub_dom", "s_req_cnt",
                               "s_ret", "s_finally">>
      [] f = "agent" -> <<"a_link_cnt", "a_n_fill", "a_settle", "a_req_cnt",
                          "a_ret">>

\* the state of the orchestrator a step belongs to: 0 for Start, 1 for
\* SiteOpened, ... 6 for Done
RankOf ==
    [f \in {"hybrid", "render", "railway", "singlefile", "agent"} |->
        [l \in {Flow(f)[k].l : k \in 1..Len(Flow(f))} |->
            Cardinality({k \in 1..Len(PhaseStarts(f)) :
                            Index(f, PhaseStarts(f)[k]) <= Index(f, l)})]]

\* first step of the workflow of front end f
Entry(f) ==
    CASE f = "hybrid" -> "h_page"
      [] f = "render" -> "r_page"
      [] f = "railway" -> "w_page"
      [] f = "singlefile" -> "s_page"
      [] f = "agent" -> "a_page"

\* the steps that wait for the portal: goto, wait_for_load_state,
\* wait_for_selector / wait_for, and the value of an intercepted download,
\* popup or response
Waits(f) ==
    CASE f = "hybrid" -> {"h_goto", "h_idle", "h_dl_value"}
      [] f = "render" -> {"r_goto", "r_val_wait", "r_form_dom", "r_not_wait",
                          "r_l4_wait", "r_idle", "r_dl_value"}
      [] f = "railway" -> {"w_goto", "w_val_wait", "w_form_wait", "w_idle",
                           "w_dl_value"}
      [] f = "singlefile" ->
            {"s_goto", "s_idle", "s_link_dom", "s_link_idle", "s_link2_dom",
             "s_link2_idle", "s_n_wait", "s_l_wait", "s_sub_dom", "s_sub_idle",
             "s_req_dom", "s_req_idle", "s_next_dom", "s_next_idle",
             "s_subm_dom", "s_subm_idle", "s_dl_value", "s_pop_value",
             "s_pop_load", "s_pop_resp"}
      [] f = "agent" -> {"a_goto", "a_link_dom", "a_req_dom", "a_next_dom",
                         "a_subm_dom", "a_dl_value", "a_pop_page", "a_pop_dom"}
      [] OTHER -> {}

\* the waits whose call passes timeout=...
ExplicitTimeout(f) ==
    CASE f = "hybrid" -> {}
      [] f = "render" -> {"r_goto", "r_val_wait", "r_not_wait", "r_l4_wait",
                          "r_idle", "r_dl_value"}
      [] f = "railway" -> {"w_val_wait", "w_form_wait", "w_idle"}
      [] f = "singlefile" -> {"s_goto", "s_n_wait", "s_l_wait", "s_dl_value",
                              "s_pop_value", "s_pop_resp"}
      [] f = "agent" -> {"a_goto", "a_dl_value", "a_pop_page"}
      [] OTHER -> {}

\* the calls that fill the notice field, fill the last4 field, submit the
\* form (click on the search button or Enter in the field)
NoticeFills == {"h_fill_notice", "r_not_fill", "w_not_fill", "s_n_fill", "a_n_fill"}
Last4Fills == {"h_fill_last4", "r_l4_fill", "w_l4_fill", "s_l_fill", "a_l_fill"}
Submits == {"h_submit", "r_sub_click", "w_sub_click", "s_btn_click", "s_enter",
            "a_btn_click", "a_enter"}

\* the calls that press Enter in the last4 field, and the clicks on a
\* submit control
Enters == {"s_enter", "a_enter"}
SubmitClicks == Submits \ Enters

\* what the call at label l carries out of the form
MarkOf(l) ==
    (IF l \in NoticeFills THEN {"notice"} ELSE {})
    \cup (IF l \in Last4Fills THEN {"last4"} ELSE {})
    \cup (IF l \in Submits THEN {"submit"} ELSE {})

\* the click() calls on the validate link
ValidateClicks == {"h_click", "r_val_click", "w_val_click", "s_link_click",
                   "s_link2_click", "a_link_click", "a_link2_click"}

\* the calls of the selector chains of render_api and railway_api:
\* wait_for_selector(selector) probes a candidate, click / fill acts on it
Probes == {"r_val_wait", "r_not_wait", "r_l4_wait", "w_val_wait"}
Acts == {"r_val_click", "r_not_fill", "r_l4_fill", "r_sub_click", "w_val_click",
         "w_not_fill", "w_l4_fill", "w_sub_click"}

\* the wait_for_load_state("networkidle") that follows the submit, and the
\* first call that reads the results page (page.content(), inner_text,
\* text_content)
IdleWaits == {"h_idle", "r_idle", "w_idle", "s_sub_idle"}
Extracts == {"h_text", "r_content", "w_content", "s_text", "a_text"}

\* every call that reads the results page
TextReads == Extracts \cup {"r_text", "w_text"}

\* Download of the scripted workflows: the steps under expect_download (the
\* click, the value of the download, save_as), and the steps of the popup
\* fallback (the popup, its load, the PDF response or the fetch in the page,
\* the write of the bytes)
Intercepts == {"s_dl_click", "s_dl_value", "s_dl_save",
               "a_dl_click", "a_dl_value", "a_dl_save"}
Fetches == {"s_pop_click", "s_pop_value", "s_pop_load", "s_pop_resp", "s_pop_body",
            "s_pop_eval", "s_pop_write",
            "a_pop_page", "a_pop_dom", "a_pop_eval", "a_pop_write"}

\* the click and fill calls made on an element that a probe of the same
\* locator has just found (wait_for_selector, wait_for(state="visible"),
\* count() > 0)
ResolvedActs == {"r_val_click", "r_not_fill", "r_l4_fill", "w_val_click",
                 "s_n_fill", "s_l_fill", "s_btn_click"}

\* the close() a workflow calls once its verdict and download are done,
\* before it returns its result
FinalCloses == {"h_close", "r_close", "w_close"}

\* handlers that end the workflow: `except Exception as e: close(); raise e`
\* of the hybrid, render and railway workflows, the error returns of singlefile
HardHandlers ==
    {"h_exc", "r_exc", "w_exc", "s_err1", "s_err2", "s_err3", "s_escape",
     "a_err2", "a_err3", "a_escape"}

-----------------------------------------------------------------------------
(* Requests and results.                                                   *)

FrontEnds == {"hybrid", "render", "railway", "singlefile", "agent", "testapi"}
Fallbacking == {"hybrid", "render", "railway"}

\* req.notice: two notices the model accepts, one of 4 characters and one
\* of 65
Notices ==
    {"L0014500721", "L0000000000", "L001",
     "L0000000000000000000000000000000000000000000000000000000000000000"}

\* req.last4 as its characters: two values of four digits, one of three
\* digits, one of five, one with a letter
Last4s ==
    {<<"0", "2", "5", "7">>, <<"0", "0", "0", "0">>, <<"0", "2", "5">>,
     <<"0", "2", "5", "7", "0">>, <<"0", "2", "a", "7">>}

Digits == {"0", "1", "2", "3", "4", "5", "6", "7", "8", "9"}

\* class CleanHandsRequest: notice = Field(min_length=5, max_length=64),
\* last4 = Field(pattern=r"^\d{4}$").  The email of the requests of the
\* model is well formed.
CleanHandsRequest(n, l4) ==
    /\ Len(n) >= 5
    /\ Len(n) <= 64
    /\ Len(l4) = 4
    /\ \A k \in 1..Len(l4) : l4[k] \in Digits

\* dict.get(key, default)
Get(d, key, default) == IF key \in DOMAIN d THEN d[key] ELSE default

\* session_id = f"hybrid-{req.notice}-{req.last4}"
SessionId(f, n, l4) ==
    <<CASE f = "hybrid" -> "hybrid" [] f = "render" -> "render"
        [] f = "railway" -> "railway" [] f = "testapi" -> "test"
        [] OTHER -> "", n, l4>>

\* ARTIFACTS_DIR / f"clean_hands_{notice}_{last4}.pdf", and for singlefile
\* ARTIFACTS_DIR / f"clean-hands-{notice}-{ts}.pdf"
PdfPath(f, n, l4) ==
    IF f \in Scripted THEN <<"clean-hands", n, "ts">> ELSE <<"clean_hands", n, l4>>

RealMode(f) ==
    CASE f = "hybrid" -> "real_browser"
      [] f = "render" -> "render_browser"
      [] f = "railway" -> "railway_browser"

MockMode(f) ==
    CASE f = "hybrid" -> "mock_fallback"
      [] f = "render" -> "render_fallback"
      [] f = "railway" -> "railway_fallback"

MockCompliantMessage(f) ==
    CASE f = "hybrid" -> "Certificate is compliant (FALLBACK RESULT - browser automation failed)"
      [] f = "render" -> "Certificate is compliant (Render fallback - browser automation failed)"
      [] f = "railway" -> "Certificate is compliant (Railway fallback - browser automation failed)"
      [] f = "testapi" -> "Certificate is compliant (MOCK RESULT)"

MockUnknownMessage(f) ==
    CASE f = "hybrid" -> "Fallback mock result - browser automation failed"
      [] f = "render" -> "Render fallback - browser automation failed"
      [] f = "railway" -> "Railway fallback - browser automation failed"
      [] f = "testapi" -> "Mock result for testing"

\* the dict without a "mode" key of testapi, with one elsewhere
Tagged(f, d) ==
    IF f = "testapi" THEN d
    ELSE [status |-> d.status, message |-> d.message, pdf_path |-> d.pdf_path,
          session_id |-> d.session_id, mode |-> MockMode(f)]

mock_clean_hands_workflow_KeepsPdf(f, n, l4, sid) ==
    Tagged(f, [status |-> IF n = "L0014500721" /\ l4 = <<"0", "2", "5", "7">> THEN "compliant" ELSE "unknown",
               message |-> IF n = "L0014500721" /\ l4 = <<"0", "2", "5", "7">>
                             THEN MockCompliantMessage(f) ELSE MockUnknownMessage(f),
               pdf_path |-> pdf_path,
               session_id |-> sid])

mock_clean_hands_workflow(f, n, l4, sid) ==
    IF n = "L0014500721" /\ l4 = <<"0", "2", "5", "7">>
      THEN Tagged(f, [status |-> "compliant", message |-> MockCompliantMessage(f),
                      pdf_path |-> NoPath, session_id |-> sid])
      ELSE Tagged(f, [status |-> "unknown", message |-> MockUnknownMessage(f),
                      pdf_path |-> NoPath, session_id |-> sid])

\* the dict returned by the hybrid, render and railway workflows
RealResult(f, sid) ==
    [status |-> status, message |-> message, pdf_path |-> pdf_path,
     session_id |-> sid, mode |-> RealMode(f)]

\* json.loads(json.dumps(result)) of the singlefile workflow
SinglefileResult ==
    [status |-> status, message |-> message, screenshot_path |-> None,
     pdf_path |-> result_pdf_path, urls |-> urls, notice |-> notice, last4 |-> last4]

\* where control is once the scripted workflow has ended: in the finally of
\* run_clean_hands, or back in Agent.run, which called the action
AfterWorkflow(f) == IF f = "singlefile" THEN "s_finally" ELSE "agent_run"

OnWorkflowRaise_Retry(f) == "start"

\* where the handler continues when the workflow call raises
OnWorkflowRaise(f) == IF f \in Fallbacking THEN "fallback" ELSE AfterWorkflow(f)

-----------------------------------------------------------------------------
\* singlefile and mytaxdc_agent import browser_use unguarded, testapi has
\* no browser at all.  The agent reads NOTICE and L4 from the environment;
\* it is given the pairs the services accept.
Init ==
    /\ fe \in FrontEnds
    /\ notice \in Notices
    /\ last4 \in Last4s
    /\ fe = "agent" => CleanHandsRequest(notice, last4)
    /\ BROWSER_AVAILABLE \in (IF fe \in Fallbacking THEN BOOLEAN
                              ELSE IF fe \in Scripted THEN {TRUE} ELSE {FALSE})
    /\ pc = "recv"
    /\ i = 0
    /\ status = "unknown"
    /\ message = ""
    /\ pdf_path = NoPath
    /\ urls = <<>>
    /\ result_pdf_path = NoPath
    /\ page_text = NoText
    /\ wf = [kind |-> "none"]
    /\ result = NoResult
    /\ response = NoResponse
    /\ bg = <<>>
    /\ files = {}
    /\ sessionAcquired = FALSE
    /\ closeCalls = 0
    /\ realStarts = 0
    /\ mockCalls = 0
    /\ failedAt = None
    /\ mail = None
    /\ marks = {}
    /\ matched = {}
    /\ used = 0
    /\ valClicks = 0
    /\ valClicked = FALSE
    /\ runs = <<>>
    /\ disk = {}

AtStep == pc \in Labels(fe)
node == Node(fe, pc)

Calls == {"aw", "cnt", "text", "dlv", "bytes", "save", "close"}

\* the candidate of the chain the running step is about: the selector of
\* the loop, or the only selector of a chain without a loop
Cand == IF i = 0 THEN 1 ELSE i

-----------------------------------------------------------------------------
(* Handlers: entry.                                                        *)

\* FastAPI builds `req: CleanHandsRequest` from the body before it calls the
\* handler; a body the model class refuses is answered 422 and the handler
\* is not called
Validate ==
    /\ pc = "recv"
    /\ fe # "agent"
    /\ IF CleanHandsRequest(notice, last4)
         THEN pc' = "start" /\ UNCHANGED response
         ELSE /\ pc' = "rejected"
              /\ response' = [kind |-> "RequestValidationError"]
    /\ UNCHANGED <<conc, mail, hist, fe, notice, last4, BROWSER_AVAILABLE, i, status,
                   message, pdf_path, urls, result_pdf_path, page_text, wf,
                   result, bg, files, sessionAcquired, closeCalls, realStarts,
                   mockCalls, failedAt>>

\* hybrid_clean_hands, render_clean_hands, railway_clean_hands: the test of
\* BROWSER_AVAILABLE, then the workflow up to the construction of its
\* BrowserSession.  The workflow's own `if not BROWSER_AVAILABLE: raise` is
\* never taken after the handler's test.
FallbackingStart ==
    /\ pc = "start"
    /\ fe \in Fallbacking
    /\ IF BROWSER_AVAILABLE
         THEN /\ realStarts' = realStarts + 1
              /\ sessionAcquired' = TRUE
              /\ pc' = Entry(fe)
         ELSE /\ pc' = "no_browser"
              /\ UNCHANGED <<realStarts, sessionAcquired>>
    /\ UNCHANGED <<conc, mail, hist, fe, notice, last4, BROWSER_AVAILABLE, i, status, message,
                   pdf_path, urls, result_pdf_path, page_text, wf, result,
                   response, bg, files, closeCalls, mockCalls, failedAt>>

\* run_clean_hands up to the call of clean_hands_workflow
SinglefileStart ==
    /\ pc = "start"
    /\ fe = "singlefile"
    /\ sessionAcquired' = TRUE
    /\ realStarts' = realStarts + 1
    /\ pc' = Entry(fe)
    /\ UNCHANGED <<conc, mail, hist, fe, notice, last4, BROWSER_AVAILABLE, i, status, message,
                   pdf_path, urls, result_pdf_path, page_text, wf, result,
                   response, bg, files, closeCalls, mockCalls, failedAt>>

\* main of mytaxdc_agent constructs the BrowserSession and Agent.run calls
\* the workflow as its initial action
AgentStart ==
    /\ pc = "recv"
    /\ fe = "agent"
    /\ sessionAcquired' = TRUE
    /\ realStarts' = realStarts + 1
    /\ pc' = Entry(fe)
    /\ UNCHANGED <<conc, mail, hist, fe, notice, last4, BROWSER_AVAILABLE, i,
                   status, message, pdf_path, urls, result_pdf_path, page_text,
                   wf, result, response, bg, files, closeCalls, mockCalls,
                   failedAt>>

\* test_clean_hands up to the call of mock_clean_hands_workflow
TestStart ==
    /\ pc = "start"
    /\ fe = "testapi"
    /\ pc' = "mock"
    /\ UNCHANGED <<conc, mail, hist, fe, notice, last4, BROWSER_AVAILABLE, i, status, message,
                   pdf_path, urls, result_pdf_path, page_text, wf, result,
                   response, bg, files, sessionAcquired, closeCalls,
                   realStarts, mockCalls, failedAt>>

-----------------------------------------------------------------------------
(* Steps of the workflows.                                                 *)

\* an awaited driver call returns (count() > 0, query_selector() an element)
CallReturns ==
    /\ AtStep
    /\ node.k \in {"aw", "cnt"}
    /\ pc' = node.nx
    /\ urls' = IF node.u # "" THEN Append(urls, node.u) ELSE urls
    /\ marks' = marks \cup MarkOf(pc)
    /\ matched' = IF pc \in Probes THEN matched \cup {Cand} ELSE matched
    /\ used' = IF pc \in Acts THEN Cand ELSE used
    /\ valClicks' = IF pc \in ValidateClicks THEN valClicks + 1 ELSE valClicks
    /\ valClicked' = (valClicked \/ pc \in ValidateClicks)
    /\ UNCHANGED <<conc, mail, fe, notice, last4, BROWSER_AVAILABLE, i, status, message,
                   pdf_path, result_pdf_path, page_text, wf, result, response,
                   bg, files, sessionAcquired, closeCalls, realStarts,
                   mockCalls, failedAt>>

\* count() returns 0, query_selector() returns None, the bytes are empty
CallReturnsNothing ==
    /\ AtStep
    /\ node.k \in {"cnt", "bytes"}
    /\ node.z # ""
    /\ pc' = node.z
    /\ UNCHANGED <<conc, mail, hist, fe, notice, last4, BROWSER_AVAILABLE, i, status, message,
                   pdf_path, urls, result_pdf_path, page_text, wf, result,
                   response, bg, files, sessionAcquired, closeCalls,
                   realStarts, mockCalls, failedAt>>

\* page.content() / inner_text("body") returns the text of the page
TextReturns ==
    /\ AtStep
    /\ node.k = "text"
    /\ page_text' \in PageTexts
    /\ pc' = node.nx
    /\ UNCHANGED <<conc, mail, hist, fe, notice, last4, BROWSER_AVAILABLE, i, status, message,
                   pdf_path, urls, result_pdf_path, wf, result, response, bg,
                   files, sessionAcquired, closeCalls, realStarts, mockCalls,
                   failedAt>>

\* the download (or the fetched bytes) arrives and pdf_path is assigned
DownloadArrives ==
    /\ AtStep
    /\ node.k \in {"dlv", "bytes"}
    /\ pdf_path' = PdfPath(fe, notice, last4)
    /\ pc' = node.nx
    /\ UNCHANGED <<conc, mail, hist, fe, notice, last4, BROWSER_AVAILABLE, i, status, message,
                   urls, result_pdf_path, page_text, wf, result, response, bg,
                   files, sessionAcquired, closeCalls, realStarts, mockCalls,
                   failedAt>>

\* download.save_as(pdf_path) / f.write(content) writes the file
SaveReturns ==
    /\ AtStep
    /\ node.k = "save"
    /\ files' = files \cup {pdf_path}
    /\ pc' = node.nx
    /\ UNCHANGED <<conc, mail, hist, fe, notice, last4, BROWSER_AVAILABLE, i, status, message,
                   pdf_path, urls, result_pdf_path, page_text, wf, result,
                   response, bg, sessionAcquired, closeCalls, realStarts,
                   mockCalls, failedAt>>

\* browser_session.close() is called and returns
CloseReturns ==
    /\ AtStep
    /\ node.k = "close"
    /\ closeCalls' = closeCalls + 1
    /\ pc' = node.nx
    /\ UNCHANGED <<conc, mail, hist, fe, notice, last4, BROWSER_AVAILABLE, i, status, message,
                   pdf_path, urls, result_pdf_path, page_text, wf, result,
                   response, bg, files, sessionAcquired, realStarts, mockCalls,
                   failedAt>>

\* browser_session.close() is called and raises
CloseRaises ==
    /\ AtStep
    /\ node.k = "close"
    /\ closeCalls' = closeCalls + 1
    /\ pc' = node.ex
    /\ failedAt' = IF node.ex \in HardHandlers THEN pc ELSE failedAt
    /\ UNCHANGED <<conc, mail, hist, fe, notice, last4, BROWSER_AVAILABLE, i, status, message,
                   pdf_path, urls, result_pdf_path, page_text, wf, result,
                   response, bg, files, sessionAcquired, realStarts, mockCalls>>

\* the mutant lets a probe that raised fall through to the action
CallRaises_FallsThrough ==
    /\ AtStep
    /\ node.k \in Calls \ {"close"}
    /\ pc' = IF pc \in Probes THEN node.nx ELSE node.ex
    /\ failedAt' = IF pc \notin Probes /\ node.ex \in HardHandlers THEN pc ELSE failedAt
    /\ valClicks' = IF pc \in ValidateClicks THEN valClicks + 1 ELSE valClicks
    /\ UNCHANGED <<conc, mail, marks, matched, used, valClicked, fe, notice,
                   last4, BROWSER_AVAILABLE, i, status, message, pdf_path, urls,
                   result_pdf_path, page_text, wf, result, response, bg, files,
                   sessionAcquired, closeCalls, realStarts, mockCalls>>

\* an awaited driver call raises; the enclosing handler takes over
CallRaises ==
    /\ AtStep
    /\ node.k \in Calls \ {"close"}
    /\ pc' = node.ex
    /\ failedAt' = IF node.ex \in HardHandlers THEN pc ELSE failedAt
    /\ valClicks' = IF pc \in ValidateClicks THEN valClicks + 1 ELSE valClicks
    /\ UNCHANGED <<conc, mail, marks, matched, used, valClicked, fe, notice, last4, BROWSER_AVAILABLE, i, status, message,
                   pdf_path, urls, result_pdf_path, page_text, wf, result,
                   response, bg, files, sessionAcquired, closeCalls,
                   realStarts, mockCalls>>

\* an awaited call raises PlaywrightTimeoutError inside the try of line 222
CallTimesOut ==
    /\ AtStep
    /\ node.tx # ""
    /\ pc' = node.tx
    /\ UNCHANGED <<conc, mail, hist, fe, notice, last4, BROWSER_AVAILABLE, i, status, message,
                   pdf_path, urls, result_pdf_path, page_text, wf, result,
                   response, bg, files, sessionAcquired, closeCalls,
                   realStarts, mockCalls, failedAt>>

\* `for selector in selectors:` takes the next selector, or the list is
\* exhausted and control passes to what follows the loop
ForNext ==
    /\ AtStep
    /\ node.k = "for"
    /\ IF i < node.n
         THEN i' = i + 1 /\ pc' = node.nx /\ UNCHANGED failedAt
         ELSE /\ i' = 0
              /\ pc' = node.z
              /\ failedAt' = IF node.z \in HardHandlers THEN pc ELSE failedAt
    /\ matched' = IF i = 0 \/ i = node.n THEN {} ELSE matched
    /\ used' = IF i = 0 \/ i = node.n THEN 0 ELSE used
    /\ UNCHANGED <<conc, mail, marks, valClicks, valClicked, fe, notice, last4, BROWSER_AVAILABLE, status, message,
                   pdf_path, urls, result_pdf_path, page_text, wf, result,
                   response, bg, files, sessionAcquired, closeCalls,
                   realStarts, mockCalls>>

\* `break` out of a selector loop
Break ==
    /\ AtStep
    /\ node.k = "brk"
    /\ i' = 0
    /\ pc' = node.nx
    /\ matched' = {}
    /\ used' = 0
    /\ UNCHANGED <<conc, mail, marks, valClicks, valClicked, fe, notice, last4, BROWSER_AVAILABLE, status, message,
                   pdf_path, urls, result_pdf_path, page_text, wf, result,
                   response, bg, files, sessionAcquired, closeCalls,
                   realStarts, mockCalls, failedAt>>

\* the status is determined from the text
ClassifyStep ==
    /\ AtStep
    /\ node.k = "cls"
    /\ status' = Classify(fe, page_text)[1]
    /\ message' = Classify(fe, page_text)[2]
    /\ pc' = node.nx
    /\ UNCHANGED <<conc, mail, hist, fe, notice, last4, BROWSER_AVAILABLE, i, pdf_path, urls,
                   result_pdf_path, page_text, wf, result, response, bg, files,
                   sessionAcquired, closeCalls, realStarts, mockCalls, failedAt>>

\* singlefile: `if pdf_path: result["pdf_path"] = pdf_path`
StorePdfPath ==
    /\ AtStep
    /\ node.k = "store"
    /\ result_pdf_path' = IF pdf_path # NoPath THEN pdf_path ELSE result_pdf_path
    /\ pc' = node.nx
    /\ UNCHANGED <<conc, mail, hist, fe, notice, last4, BROWSER_AVAILABLE, i, status, message,
                   pdf_path, urls, page_text, wf, result, response, bg, files,
                   sessionAcquired, closeCalls, realStarts, mockCalls, failedAt>>

\* the mutant swallows the error and goes on to read the verdict
ErrorReturn_Continues ==
    /\ AtStep
    /\ node.k = "err"
    /\ pc' = IF fe = "singlefile" THEN "s_text" ELSE "a_text"
    /\ UNCHANGED <<conc, mail, hist, fe, notice, last4, BROWSER_AVAILABLE, i,
                   status, message, pdf_path, urls, result_pdf_path, page_text,
                   wf, result, response, bg, files, sessionAcquired, closeCalls,
                   realStarts, mockCalls, failedAt>>

\* singlefile: `return ActionResult(error=..., is_done=True)`
ErrorReturn ==
    /\ AtStep
    /\ node.k = "err"
    /\ wf' = [kind |-> "returned", error |-> node.u, extracted_content |-> NoResult]
    /\ pc' = AfterWorkflow(fe)
    /\ UNCHANGED <<conc, mail, hist, fe, notice, last4, BROWSER_AVAILABLE, i, status, message,
                   pdf_path, urls, result_pdf_path, page_text, result, response,
                   bg, files, sessionAcquired, closeCalls, realStarts,
                   mockCalls, failedAt>>

\* the workflow returns its result
WorkflowReturns ==
    /\ AtStep
    /\ node.k = "ret"
    /\ IF fe \in Scripted
         THEN /\ wf' = [kind |-> "returned", error |-> None, extracted_content |-> SinglefileResult]
              /\ pc' = AfterWorkflow(fe)
              /\ UNCHANGED result
         ELSE /\ result' = RealResult(fe, SessionId(fe, notice, last4))
              /\ wf' = [kind |-> "returned"]
              /\ pc' = "add_task"
    /\ UNCHANGED <<conc, mail, hist, fe, notice, last4, BROWSER_AVAILABLE, i, status, message,
                   pdf_path, urls, result_pdf_path, page_text, response, bg,
                   files, sessionAcquired, closeCalls, realStarts, mockCalls,
                   failedAt>>

\* an exception leaves the workflow function
WorkflowRaises ==
    /\ AtStep
    /\ node.k = "raise"
    /\ wf' = [kind |-> "exception"]
    /\ pc' = OnWorkflowRaise(fe)
    /\ UNCHANGED <<conc, mail, hist, fe, notice, last4, BROWSER_AVAILABLE, i, status, message,
                   pdf_path, urls, result_pdf_path, page_text, result, response,
                   bg, files, sessionAcquired, closeCalls, realStarts,
                   mockCalls, failedAt>>

\* The task of the request is cancelled while it awaits a driver call:
\* asyncio.CancelledError is raised at the await.  It is not an Exception,
\* so no `except Exception` of the workflows or of the handlers catches
\* it; only the finally of run_clean_hands (singlefile) runs on its way out.
\* A cancellation that arrives during close() finds close() already called.
\* The frame of the workflow is gone with the exception: its locals, and
\* what was recorded of its calls, are dropped.
\* The task of the agent belongs to Agent.run and is left out.
Cancel ==
    /\ AtStep
    /\ node.k \in Calls
    /\ sessionAcquired
    /\ fe # "agent"
    /\ closeCalls' = IF node.k = "close" THEN closeCalls + 1 ELSE closeCalls
    /\ IF fe = "singlefile" /\ pc # "s_finally"
         THEN pc' = "s_finally" /\ wf' = [kind |-> "cancelled"]
         ELSE pc' = "cancelled" /\ UNCHANGED wf
    /\ i' = 0
    /\ status' = "unknown"
    /\ message' = ""
    /\ pdf_path' = NoPath
    /\ urls' = <<>>
    /\ result_pdf_path' = NoPath
    /\ page_text' = NoText
    /\ marks' = {}
    /\ matched' = {}
    /\ used' = 0
    /\ valClicks' = 0
    /\ valClicked' = FALSE
    /\ UNCHANGED <<conc, mail, fe, notice, last4, BROWSER_AVAILABLE, result,
                   response, bg, files, sessionAcquired, realStarts, mockCalls,
                   failedAt>>

\* The step by which a workflow learns that no submit control resolves:
\* singlefile's `if await btn.count()` is false; the submit loop of
\* render_api or railway_api has had the click on every selector raise; the
\* only click of hybridapi, or the click of the agent, raises.
NoSubmitControl ==
    \/ pc = "s_btn_cnt2" /\ CallReturnsNothing
    \/ pc \in {"r_sub_for", "w_sub_for"} /\ i = node.n /\ ForNext
    \/ pc \in {"h_submit", "a_btn_click"} /\ CallRaises

-----------------------------------------------------------------------------
(* Handlers: after the workflow.                                           *)

\* result = await mock_clean_hands_workflow(req.notice, req.last4, session_id)
MockStep ==
    /\ pc \in {"fallback", "no_browser", "mock"}
    /\ mockCalls' = mockCalls + 1
    /\ result' = mock_clean_hands_workflow(fe, notice, last4, SessionId(fe, notice, last4))
    /\ pc' = "add_task"
    /\ UNCHANGED <<conc, mail, hist, fe, notice, last4, BROWSER_AVAILABLE, i, status, message,
                   pdf_path, urls, result_pdf_path, page_text, wf, response, bg,
                   files, sessionAcquired, closeCalls, realStarts, failedAt>>

\* the mutant answers email_enqueued without having added the task
Respond_NoTask ==
    /\ pc = "add_task"
    /\ response' =
         IF fe = "testapi"
           THEN [kind |-> "json", status |-> result.status, notice |-> notice,
                 last4 |-> last4, email_enqueued |-> TRUE,
                 message |-> <<"Test mode - email will be sent with mock results">>,
                 session_id |-> SessionId(fe, notice, last4)]
           ELSE [kind |-> "json", status |-> result.status, notice |-> notice,
                 last4 |-> last4, email_enqueued |-> TRUE,
                 message |-> <<"Processed via", Get(result, "mode", "unknown"), "mode">>,
                 session_id |-> SessionId(fe, notice, last4)]
    /\ pc' = "done"
    /\ UNCHANGED <<conc, mail, hist, fe, notice, last4, BROWSER_AVAILABLE, i, status, message,
                   pdf_path, urls, result_pdf_path, page_text, wf, result, bg,
                   files, sessionAcquired, closeCalls, realStarts, mockCalls,
                   failedAt>>

\* bg.add_task(send_result_email, ...) and the return of the response.
\* Nothing between the inner try and the return raises Exception, so the
\* handler's outer `except Exception` (status "error") is never entered.
Respond ==
    /\ pc = "add_task"
    /\ bg' = Append(bg, <<"send_result_email", notice, last4, result>>)
    /\ response' =
         IF fe = "testapi"
           THEN [kind |-> "json", status |-> result.status, notice |-> notice,
                 last4 |-> last4, email_enqueued |-> TRUE,
                 message |-> <<"Test mode - email will be sent with mock results">>,
                 session_id |-> SessionId(fe, notice, last4)]
           ELSE [kind |-> "json", status |-> result.status, notice |-> notice,
                 last4 |-> last4, email_enqueued |-> TRUE,
                 message |-> <<"Processed via", Get(result, "mode", "unknown"), "mode">>,
                 session_id |-> SessionId(fe, notice, last4)]
    /\ pc' = "done"
    /\ UNCHANGED <<conc, mail, hist, fe, notice, last4, BROWSER_AVAILABLE, i, status, message,
                   pdf_path, urls, result_pdf_path, page_text, wf, result,
                   files, sessionAcquired, closeCalls, realStarts, mockCalls,
                   failedAt>>

\* run_clean_hands after the finally: lines 356-392
SinglefileRespond ==
    /\ pc = "s_after"
    /\ IF wf.kind \in {"exception", "cancelled"}
         THEN /\ response' = IF wf.kind = "exception" THEN [kind |-> "exception"]
                             ELSE response
              /\ UNCHANGED <<result, bg>>
         ELSE IF wf.error # None
           THEN /\ response' = [kind |-> "HTTPException", status_code |-> 500,
                                detail |-> wf.error]
                /\ UNCHANGED <<result, bg>>
           ELSE LET data == wf.extracted_content
                IN  /\ result' = data
                    /\ bg' = Append(bg, <<"send_cloudmailin_email",
                                          Get(data, "status", "unknown"),
                                          Get(data, "pdf_path", NoPath)>>)
                    /\ response' = [kind |-> "json",
                                    status |-> Get(data, "status", "unknown"),
                                    notice |-> notice, last4 |-> last4,
                                    email_enqueued |-> TRUE]
    /\ pc' = IF wf.kind = "cancelled" THEN "cancelled" ELSE "done"
    /\ UNCHANGED <<conc, mail, hist, fe, notice, last4, BROWSER_AVAILABLE, i, status, message,
                   pdf_path, urls, result_pdf_path, page_text, wf, files,
                   sessionAcquired, closeCalls, realStarts, mockCalls, failedAt>>

\* the status the email task was given: result["status"] of the envelope
\* passed to send_result_email, the status in the subject and body passed to
\* send_cloudmailin_email
TaskStatus(task) == IF task[1] = "send_cloudmailin_email" THEN task[2] ELSE task[4].status

\* how the email task can end: send_result_email returns the dict of its
\* provider call, which catches every exception; send_cloudmailin_email
\* returns early without credentials and lets raise_for_status() raise
MailOutcomes(f) ==
    IF f = "singlefile"
      THEN {"skipped: not configured", "sent", "raised"}
      ELSE {"error: missing credentials", "success", "error: provider status",
            "error: exception caught"}

\* the mutant reports a failed delivery in the envelope
EmailTaskRuns_MarksResult ==
    /\ pc = "done"
    /\ bg # <<>>
    /\ mail = None
    /\ mail' \in MailOutcomes(fe)
    /\ result' = IF mail' \in {"sent", "success"} THEN result
                 ELSE [result EXCEPT !.status = "error"]
    /\ UNCHANGED <<conc, hist, fe, notice, last4, BROWSER_AVAILABLE, pc, i, status,
                   message, pdf_path, urls, result_pdf_path, page_text, wf,
                   response, bg, files, sessionAcquired, closeCalls,
                   realStarts, mockCalls, failedAt>>

\* the task added to BackgroundTasks runs once the response has been sent
EmailTaskRuns ==
    /\ pc = "done"
    /\ bg # <<>>
    /\ mail = None
    /\ mail' \in MailOutcomes(fe)
    /\ UNCHANGED <<conc, hist, fe, notice, last4, BROWSER_AVAILABLE, pc, i, status,
                   message, pdf_path, urls, result_pdf_path, page_text, wf,
                   result, response, bg, files, sessionAcquired, closeCalls,
                   realStarts, mockCalls, failedAt>>

-----------------------------------------------------------------------------
(* Concurrent requests of hybridapi.  Each request is a coroutine of the   *)
(* one event loop; a step of a run is one await of its workflow, and the   *)
(* awaits of different runs interleave freely.  The steps follow           *)
(* HybridFlow; what is recorded of a run is what it shares with the world  *)
(* outside its coroutine: the session id, the debugging port of its        *)
(* browser, and the file it saves.                                         *)

Runs == 1..NumRuns

\* "--remote-debugging-port=9222"
DebugPort == 9222

TwoInit ==
    /\ runs \in [Runs -> {[pc |-> "start", notice |-> n, last4 |-> l4,
                           session_id |-> <<>>, port |-> 0, open |-> FALSE,
                           pdf_path |-> NoPath] :
                              n \in {"L0014500721", "L0000000000"},
                              l4 \in {<<"0", "2", "5", "7">>}}]
    /\ disk = {}
    /\ fe = "hybrid"
    /\ notice = "L0014500721"
    /\ last4 = <<"0", "2", "5", "7">>
    /\ BROWSER_AVAILABLE = TRUE
    /\ pc = "recv"
    /\ i = 0
    /\ status = "unknown"
    /\ message = ""
    /\ pdf_path = NoPath
    /\ urls = <<>>
    /\ result_pdf_path = NoPath
    /\ page_text = NoText
    /\ wf = [kind |-> "none"]
    /\ result = NoResult
    /\ response = NoResponse
    /\ bg = <<>>
    /\ files = {}
    /\ sessionAcquired = FALSE
    /\ closeCalls = 0
    /\ realStarts = 0
    /\ mockCalls = 0
    /\ failedAt = None
    /\ mail = None
    /\ marks = {}
    /\ matched = {}
    /\ used = 0
    /\ valClicks = 0
    /\ valClicked = FALSE

one == <<fe, notice, last4, BROWSER_AVAILABLE, pc, i, status, message,
         pdf_path, urls, result_pdf_path, page_text, wf, result, response, bg,
         files, sessionAcquired, closeCalls, realStarts, mockCalls, failedAt,
         mail, hist>>

\* the handler computes session_id and the workflow constructs the
\* BrowserSession of run r from its profile
TwoStart(r) ==
    /\ runs[r].pc = "start"
    /\ runs' = [runs EXCEPT ![r].pc = Entry("hybrid"),
                            ![r].session_id = SessionId("hybrid", runs[r].notice, runs[r].last4),
                            ![r].port = DebugPort,
                            ![r].open = TRUE]
    /\ UNCHANGED <<disk, one>>

\* the awaited call of run r returns
TwoReturns(r) ==
    /\ runs[r].pc \in Labels("hybrid")
    /\ LET row == Node("hybrid", runs[r].pc)
       IN  /\ row.k \in Calls \cup {"cls"}
           /\ runs' = [runs EXCEPT
                  ![r].pc = row.nx,
                  ![r].open = IF row.k = "close" THEN FALSE ELSE @,
                  ![r].pdf_path = IF row.k = "dlv"
                                    THEN PdfPath("hybrid", runs[r].notice, runs[r].last4)
                                    ELSE @]
           /\ disk' = IF row.k = "save" THEN disk \cup {<<runs[r].pdf_path, r>>}
                      ELSE disk
    /\ UNCHANGED one

\* the awaited call of run r raises
TwoRaises(r) ==
    /\ runs[r].pc \in Labels("hybrid")
    /\ LET row == Node("hybrid", runs[r].pc)
       IN  /\ row.k \in Calls
           /\ runs' = [runs EXCEPT
                  ![r].pc = row.ex,
                  ![r].open = IF row.k = "close" THEN FALSE ELSE @]
    /\ UNCHANGED <<disk, one>>

\* the workflow of run r returns or raises; the handler answers
TwoEnds(r) ==
    /\ runs[r].pc \in Labels("hybrid")
    /\ Node("hybrid", runs[r].pc).k \in {"ret", "raise"}
    /\ runs' = [runs EXCEPT ![r].pc = "done"]
    /\ UNCHANGED <<disk, one>>

TwoNext ==
    \/ \E r \in Runs : TwoStart(r)
    \/ \E r \in Runs : TwoReturns(r)
    \/ \E r \in Runs : TwoRaises(r)
    \/ \E r \in Runs : TwoEnds(r)

SpecTwo == TwoInit /\ [][TwoNext]_vars

-----------------------------------------------------------------------------
Next ==
    \/ Validate
    \/ FallbackingStart
    \/ SinglefileStart
    \/ AgentStart
    \/ TestStart
    \/ CallReturns
    \/ CallReturnsNothing
    \/ TextReturns
    \/ DownloadArrives
    \/ SaveReturns
    \/ CloseReturns
    \/ CloseRaises
    \/ CallRaises
    \/ CallTimesOut
    \/ ForNext
    \/ Break
    \/ ClassifyStep
    \/ StorePdfPath
    \/ ErrorReturn
    \/ WorkflowReturns
    \/ WorkflowRaises
    \/ Cancel
    \/ MockStep
    \/ Respond
    \/ SinglefileRespond
    \/ EmailTaskRuns

Spec == Init /\ [][Next]_vars

-----------------------------------------------------------------------------
(* Vocabulary of the properties.                                           *)

Verdicts == {"compliant", "noncompliant", "unknown"}
RealModes == {"real_browser", "render_browser", "railway_browser"}
MockModes == {"mock_fallback", "render_fallback", "railway_fallback"}

\* the handler has answered the caller
Answered == pc = "done"
\* the handler holds a result envelope
HasEnvelope == result # NoResult
\* the classifier has run
Classified == message # ""
\* the real workflow ended by raising or by returning an error
WorkflowFailed == failedAt # None
\* the envelope is the one the real workflow returned
RealEnvelope == HasEnvelope /\ mockCalls = 0 /\ fe # "testapi"
\* the envelope is the one the mock generator returned
MockEnvelope == HasEnvelope /\ mockCalls > 0
KnownPair == notice = "L0014500721" /\ last4 = <<"0", "2", "5", "7">>

-----------------------------------------------------------------------------
\* C1: every answered request has exactly one result envelope, and the
\* envelope's mode is one of the real-automation or the mock-fallback modes.
C1_OneEnvelopeWithMode ==
    Answered =>
        /\ HasEnvelope
        /\ Get(result, "mode", None) \in RealModes \cup MockModes
        /\ (Get(result, "mode", None) \in MockModes) = (mockCalls = 1)

\* C2: when the automation is unavailable at startup or the real workflow
\* fails, the mock generator is invoked and the envelope has a mock mode.
C2_FailureGivesMock ==
    (Answered /\ fe # "testapi" /\ (~BROWSER_AVAILABLE \/ WorkflowFailed)) =>
        /\ mockCalls = 1
        /\ HasEnvelope
        /\ Get(result, "mode", None) \in MockModes

\* C3: within one request the real workflow is started at most once, it is
\* not started again after it failed, and the mock generator is invoked at
\* most once.
C3_OneAttempt ==
    /\ [](realStarts <= 1 /\ mockCalls <= 1)
    /\ [][WorkflowFailed => realStarts' = realStarts]_vars
    /\ [][mockCalls = 1 => (mockCalls' = 1 /\ realStarts' = realStarts)]_vars

C3_Witness ==
    Answered /\ WorkflowFailed /\ realStarts = 1 /\ mockCalls = 1

\* C4: whatever step of the workflow fails, the caller receives a response
\* whose status is a verdict, never an error or an unhandled exception.
C4_AlwaysVerdict ==
    Answered => (response.kind = "json" /\ response.status \in Verdicts)

\* C5: a text that matches both the non-compliant and the compliant keywords
\* is classified as noncompliant.
C5_NonCompliantFirst ==
    (Classified /\ MatchesNonCompliant(fe, page_text) /\ MatchesCompliant(fe, page_text))
        => status = "noncompliant"

\* C6 as stated: a text with no keyword of either set is classified unknown
\* with the message "Could not detect compliance status".
C6_Original ==
    (Classified /\ ~MatchesNonCompliant(fe, page_text) /\ ~MatchesCompliant(fe, page_text))
        => (status = "unknown" /\ message = "Could not detect compliance status")

\* C6: a text with no keyword of either set is classified unknown; the
\* message is "Could not detect compliance status." in singlefile and
\* mytaxdc_agent, "Unable to determine compliance status" in hybrid, render
\* and railway;
\* the classification step cannot raise: it always leads to the next step.
C6_NoKeywordUnknown ==
    /\ []((Classified /\ ~MatchesNonCompliant(fe, page_text)
                      /\ ~MatchesCompliant(fe, page_text))
            => /\ status = "unknown"
               /\ message = IF fe \in Scripted
                              THEN "Could not detect compliance status."
                              ELSE "Unable to determine compliance status")
    /\ [][(AtStep /\ node.k = "cls") => (pc' = node.nx /\ failedAt' = failedAt)]_vars

C6_Witness ==
    /\ Classified
    /\ page_text = <<"x", " ">>
    /\ status = "unknown"
    /\ fe \in {"render", "singlefile"}

\* C7: a failure in the certificate sub-flow leaves the extracted verdict in
\* the envelope, does not fail the workflow, and the envelope's pdf_path is
\* none unless the PDF was written.
C7_CertificateIsolated ==
    (Answered /\ RealEnvelope /\ Classified) =>
        /\ ~WorkflowFailed
        /\ result.status = status
        /\ (result.pdf_path # NoPath => result.pdf_path \in files)

\* C8: the mock result is compliant for ("L0014500721", "0257") and unknown
\* for every other pair, and its mode is a mock-fallback mode.
C8_MockFunction ==
    MockEnvelope =>
        /\ result.status = IF KnownPair THEN "compliant" ELSE "unknown"
        /\ Get(result, "mode", None) \in MockModes

\* C9: a run that acquired a browser session has called close exactly once
\* when the request is answered.
C9_CloseExactlyOnce ==
    (Answered /\ sessionAcquired) => closeCalls = 1

\* C10: a mock-fallback envelope carries the mock generator's verdict and
\* message, no pdf_path and no visited urls, whatever the failed real run
\* had produced.
C10_NoMixing ==
    (MockEnvelope /\ fe \in Fallbacking) =>
        /\ result.status = IF KnownPair THEN "compliant" ELSE "unknown"
        /\ result.message = IF KnownPair THEN MockCompliantMessage(fe)
                            ELSE MockUnknownMessage(fe)
        /\ result.pdf_path = NoPath
        /\ "urls" \notin DOMAIN result
        /\ result.mode \in MockModes

C10_Witness ==
    /\ Answered
    /\ MockEnvelope
    /\ failedAt = "r_close"
    /\ status = "noncompliant"
    /\ pdf_path # NoPath
    /\ pdf_path \in files
    /\ result.status = "unknown"

\* C11: a request whose notice is not 5 to 64 characters long or whose last4
\* is not four digits is rejected before the workflow starts (no session, no
\* run of the real workflow, no mock result, no email task), and only such a
\* request is answered with a failure instead of a verdict.
C11_OnlyMalformedFails ==
    /\ ~CleanHandsRequest(notice, last4) =>
          /\ pc \in {"recv", "rejected"}
          /\ ~sessionAcquired
          /\ realStarts = 0
          /\ mockCalls = 0
          /\ bg = <<>>
    /\ response.kind \in {"RequestValidationError", "HTTPException", "exception"} =>
          ~CleanHandsRequest(notice, last4)

\* C12: the email task is added only when the result envelope exists, and
\* from then on the envelope and the response never change; the task runs
\* only after the response was produced, and however it ends (no
\* credentials, provider error, exception) envelope and response stay as
\* they were.
C12_EmailAfterEnvelope ==
    /\ [][bg' # bg => (HasEnvelope' /\ Len(bg') = 1)]_vars
    /\ [][bg # <<>> => (result' = result /\ response' = response)]_vars
    /\ [](mail # None => (Answered /\ response.kind = "json"))
    /\ [][mail' # mail => (result' = result /\ response' = response /\ pc' = pc)]_vars

C12_Witness ==
    /\ Answered
    /\ response.kind = "json"
    /\ HasEnvelope
    /\ mail \in {"raised", "error: provider status"}

\* C13: of two requests that run concurrently, none uses the debugging
\* port or the session id of the other while both sessions are open, and
\* none writes the PDF file the other wrote.
C13_NoSharedResource ==
    \A r1, r2 \in Runs :
        r1 # r2 =>
            /\ (runs[r1].open /\ runs[r2].open) =>
                  /\ runs[r1].port # runs[r2].port
                  /\ runs[r1].session_id # runs[r2].session_id
            /\ \A p \in {w[1] : w \in disk} : ~(<<p, r1>> \in disk /\ <<p, r2>> \in disk)

\* C14: every wait a run performs (navigation, load state, selector,
\* intercepted download) was called with an explicit timeout.
C14_WaitsHaveTimeout ==
    (AtStep /\ pc \in Waits(fe)) => pc \in ExplicitTimeout(fe)

\* C15: a run that was cancelled after its session was acquired has called
\* close() on the session when control has left the handler.
C15_CancelCloses ==
    (pc = "cancelled" /\ sessionAcquired) => closeCalls >= 1

\* C16: a workflow starts in Start and each step stays in the state of the
\* step before it or moves to the next one in the order Start, SiteOpened,
\* ValidationPageReached, FormSubmitted, VerdictExtracted,
\* CertificateAttempted, Done; the certificate sub-flow and the return of a
\* result run only after the classifier has; after a failure only the
\* cleanup of the failure handler runs, no step of the workflow.
C16_StatesInOrder ==
    /\ [][(~AtStep /\ AtStep') => RankOf[fe][pc'] = 0]_vars
    /\ [][(AtStep /\ AtStep' /\ failedAt' = None /\ wf'.kind # "cancelled")
            => RankOf[fe][pc'] \in {RankOf[fe][pc], RankOf[fe][pc] + 1}]_vars
    /\ []((AtStep /\ failedAt = None /\ wf.kind # "cancelled" /\ RankOf[fe][pc] >= 4)
            => Classified)
    /\ []((wf.kind = "returned" /\ failedAt = None)
            => IF fe \in Scripted THEN wf.extracted_content.message # ""
               ELSE result.message # "")
    /\ []((AtStep /\ failedAt # None) => node.k \in {"close", "raise", "err"})
    /\ [][failedAt # None => failedAt' = failedAt]_vars

C16_Witness ==
    /\ fe \in Scripted
    /\ wf.kind = "returned"
    /\ failedAt = None
    /\ urls = <<"home", "validate", "request", "next", "submit">>
    /\ Classified
    /\ result_pdf_path # NoPath

\* C17: a workflow is in FormSubmitted or beyond only if the notice field was
\* filled, the last4 field was filled and the form was submitted.
C17_SubmittedMeansFilled ==
    (AtStep /\ failedAt = None /\ wf.kind # "cancelled" /\ RankOf[fe][pc] >= 3)
        => {"notice", "last4", "submit"} \subseteq marks

\* C18: the candidate a selector chain acts on is the first one of its list
\* that matched: no candidate before it had its probe succeed.
C18_FirstMatchUsed ==
    used # 0 => \A j \in matched : j >= used

\* C19: in render_api and railway_api a click on the validate link is made
\* only on a candidate whose probe succeeded; when the probe of every
\* candidate failed, no click was made, the workflow fails at the chain and
\* no click follows.
C19_NoMatchNoClick ==
    /\ []((AtStep /\ fe \in {"render", "railway"} /\ pc \in ValidateClicks)
            => Cand \in matched)
    /\ [][(fe = "render" /\ pc = "r_val_for" /\ i = node.n /\ matched = {})
            => (valClicks = 0 /\ pc' = "r_exc" /\ failedAt' = "r_val_for")]_vars
    /\ [][(fe = "railway" /\ pc = "w_val_wait" /\ matched' = {} /\ pc' # "cancelled")
            => (valClicks = 0 /\ pc' = "w_exc" /\ failedAt' = "w_val_wait")]_vars
    /\ [][(failedAt \in {"r_val_for", "w_val_wait"})
            => (valClicks' = valClicks \/ pc' = "cancelled")]_vars

C19_Witness ==
    /\ fe = "render"
    /\ failedAt = "r_val_for"
    /\ valClicks = 0
    /\ closeCalls = 1
    /\ Answered

\* C20: a scripted run calls click() on the validate link at most twice, and
\* never again once a click on it has returned.
C20_RetryOnlyAfterFailure ==
    /\ [](fe \in Scripted => valClicks <= 2)
    /\ [][(fe \in Scripted /\ valClicked) => valClicks' <= valClicks]_vars

\* C21: when no submit control resolves the workflow presses Enter in the
\* last4 field; Enter is pressed only then; and once the form was submitted
\* (by a click or by Enter) no other submit call is made.
C21_EnterFallback ==
    /\ [][NoSubmitControl => pc' \in Enters]_vars
    /\ [][(pc' \in Enters /\ pc \notin Enters) => NoSubmitControl]_vars
    /\ []((AtStep /\ "submit" \in marks) => pc \notin Submits)

\* C22: in the scripted workflows the download starts with the interception
\* of the download event; the popup fetch is entered only from a step of the
\* interception that raised; no step of either fails the workflow; and when
\* neither wrote a file the pdf_path that is stored is none.
C22_DownloadOrder ==
    /\ [][(pc' \in Intercepts /\ pc \notin Intercepts)
            => (pc \in {"s_view_cnt2", "a_view_cnt2"} /\ pc' \in {"s_dl_click", "a_dl_click"})]_vars
    /\ [][(pc' \in Fetches /\ pc \notin Fetches) => (pc \in Intercepts /\ CallRaises)]_vars
    /\ [][(pc \in Intercepts \cup Fetches /\ pc' # "cancelled" /\ wf'.kind # "cancelled")
            => (failedAt' = None /\ pc' \in Intercepts \cup Fetches \cup {"s_store", "a_store"})]_vars
    /\ []((AtStep /\ pc \in {"s_store", "a_store"} /\ files = {}) => pdf_path = NoPath)

\* C23: when the lookup of the "request current certificate" link finds
\* nothing, the next step of the workflow is its return: the "view
\* certificate" link is not looked up and no download step runs.
C23_MissingRequestEndsSubflow ==
    [][(pc \in {"s_req_cnt2", "a_req_cnt2"} /\ CallReturnsNothing)
        => (pc' \in {"s_ret", "a_ret"} /\ pdf_path' = NoPath)]_vars

\* C24: the results page is read only after a wait for the network-idle
\* load state has returned; when that wait raises, the workflow fails at it
\* and no verdict is classified.
C24_IdleBeforeExtract ==
    /\ [][(pc' \in Extracts /\ pc \notin Extracts) => (pc \in IdleWaits /\ CallReturns)]_vars
    /\ [][(pc \in IdleWaits /\ CallRaises) => failedAt' = pc]_vars
    /\ [](failedAt \in IdleWaits => ~Classified)

\* C25: a read of the results page that raises fails the workflow at that
\* step, and the classifier runs only on a text that was read.
C25_ExtractionFailureEscapes ==
    /\ [][(pc \in TextReads /\ CallRaises) => failedAt' = pc]_vars
    /\ []((AtStep /\ node.k = "cls") => page_text # NoText)

\* C26: when a click or fill on a resolved element raises, the next call
\* of the workflow is the same action on the same candidate: control stays
\* at the step and the chain does not advance.
C26_RetrySameElement ==
    [][(pc \in ResolvedActs /\ CallRaises) => (pc' = pc /\ i' = i)]_vars

\* C27: the pdf_path of the result a real workflow returned is none or the
\* path of a file that was written.
C27_PdfPathMeansFile ==
    /\ (fe \in Fallbacking /\ wf.kind = "returned" /\ result.pdf_path # NoPath)
          => result.pdf_path \in files
    /\ (fe \in Scripted /\ wf.kind = "returned" /\ wf.error = None
                        /\ wf.extracted_content.pdf_path # NoPath)
          => wf.extracted_content.pdf_path \in files

\* C28: when the close() that follows the verdict raises, the envelope of
\* the answer is the real one (the classified verdict, a real-automation
\* mode, no call of the mock generator); in singlefile a returned result is
\* answered with its status whatever close() did.
C28_CloseFailureKeepsResult ==
    /\ []((Answered /\ failedAt \in FinalCloses)
            => /\ mockCalls = 0
               /\ result.status = status
               /\ Get(result, "mode", None) \in RealModes
               /\ response.kind = "json"
               /\ response.status = status)
    /\ []((fe = "singlefile" /\ Answered /\ wf.kind = "returned" /\ wf.error = None)
            => /\ response.kind = "json"
               /\ response.status = wf.extracted_content.status)

\* C29: in hybridapi a classified text that contains "non-compliant" or
\* "noncompliant" has the status noncompliant, and a text has the status
\* compliant only if it contains "compliant" and neither of the two.
C29_HybridClassifier ==
    (fe = "hybrid" /\ Classified) =>
        /\ ContainsAny(Lower(page_text), HybridNonCompliant) => status = "noncompliant"
        /\ status = "compliant" =>
              /\ ContainsAny(Lower(page_text), HybridCompliant)
              /\ ~ContainsAny(Lower(page_text), HybridNonCompliant)

\* C30: at most one email task is added per request; a response says
\* email_enqueued = true exactly when one task was added; and the status of
\* that response is the status the task was given.
C30_EnqueuedIffOneTask ==
    /\ Len(bg) <= 1
    /\ response # NoResponse =>
          ((response.kind = "json" /\ response.email_enqueued) <=> Len(bg) = 1)
    /\ (response.kind = "json" /\ response.email_enqueued) =>
          response.status = TaskStatus(bg[1])

C30_Witness ==
    /\ Answered
    /\ fe = "render"
    /\ response.kind = "json"
    /\ response.email_enqueued
    /\ response.status = "noncompliant"
    /\ Len(bg) = 1
    /\ TaskStatus(bg[1]) = "noncompliant"
    /\ mail # None

====
